---- MODULE Spec2Model ----
(***************************************************************************)
(* Model of src/main.py: the survey conversation handlers registered on    *)
(* the aiogram dispatcher (FSM storage in memory, no per-chat event        *)
(* isolation), the local sqlite tables, the spreadsheet mirror and the     *)
(* /trigger broadcast.                                                      *)
(*                                                                         *)
(* A handler is a coroutine: it runs without interruption up to an await   *)
(* of an outbound Telegram call (message.answer, bot.send_message), where  *)
(* it is suspended; the call later returns or raises, or never ends.  The  *)
(* awaits of the in-memory FSM storage do not suspend.  Every webhook      *)
(* request is served by its own task, so handlers of the same chat may be  *)
(* suspended side by side.  A coroutine whose awaited send is its last     *)
(* statement (a prompt, a rejection, the cancel and /start replies) runs   *)
(* no code when the send ends, whatever its outcome: it is modelled up to  *)
(* handing the message to the transport.  A coroutine with code after the  *)
(* await (the completion of a survey, the "already finished" reply) is     *)
(* kept in a slot until the send returns or raises.                        *)
(*                                                                         *)
(* TLA+ strings hold ASCII only, so the Cyrillic literals of the source    *)
(* are written in Latin transliteration, letter case kept:                 *)
(*   "Da" "Net" "da" "net" "mimolyotnye" "navyazchivye" "Otmena".          *)
(***************************************************************************)
EXTENDS Integers, Sequences, FiniteSets, TLC

VARIABLES
    fsm,       \* dp storage (MemoryStorage): per chat, FSM state and data
    users,     \* sqlite table users: per chat "absent" | "active" | "inactive"
    entries,   \* sqlite table entries, in insertion (id) order
    sheet,     \* rows of the worksheet "data" of the spreadsheet mirror
    slots,     \* handler coroutines suspended in a send with code left to run
    last,      \* the latest webhook update, its handler and its first reply
               \* (NoUpdate once a /trigger request has been served since)
    fire,      \* the /trigger request: its send_bulk_prompt loop
    vocab,     \* the message texts the users of this run type
    accepted,  \* history: per chat, the raw texts accepted in its session
    scenario,  \* history: per chat, progress of "start morning, then only 0s"
    budget,    \* number of requests the run still serves
    SECRET_KEY, \* os.getenv("SECRET_KEY"): "" when unset or empty
    persisted  \* history: per chat, rows saved since its latest start_survey

vars ==
    <<fsm, users, entries, sheet, slots, last, fire, vocab, accepted, scenario, budget,
      SECRET_KEY, persisted>>

----------------------------------------------------------------------------
(* Bounds *)

\* Webhook updates served in one run of the conversation (Spec).
MaxUpdates == 12

\* Requests (webhook updates and trigger calls) served in one run of the
\* broadcast (SpecFire).
MaxFireUpdates == 5

\* chat ids
Chats == {1, 2}

\* The values of the environment variable SECRET_KEY: unset, or a secret.
Secrets == {"", "s3cret"}

\* handler coroutines that can exist at once
Slots == {1, 2}

----------------------------------------------------------------------------
(* Texts.  strip() and lower() of Python's str, on the texts of the model. *)

Strip(t) ==
    CASE t = " 4 " -> "4"
      [] t = " da " -> "da"
      [] OTHER -> t

Lower(t) ==
    CASE t = "Da" -> "da"
      [] t = "Net" -> "net"
      [] t = "NET" -> "net"
      [] t = "Navyazchivye" -> "navyazchivye"
      [] t = "Mimolyotnye" -> "mimolyotnye"
      [] OTHER -> t

\* int(s): the value, or -1 where int() raises ValueError.
ParseInt(s) ==
    CASE s = "0" -> 0 [] s = "1" -> 1 [] s = "2" -> 2
      [] s = "3" -> 3 [] s = "4" -> 4 [] s = "5" -> 5
      [] OTHER -> -1

CancelText == "Otmena"

\* What a user who wants no more broadcasts writes.  The dispatcher has no
\* handler for an opt-out, under any text: the text is dispatched like any
\* other message.
OptoutText == "/stop"

Kinds == {"morning", "day", "evening"}

CommandOf(kind) ==
    CASE kind = "morning" -> "/morning"
      [] kind = "day" -> "/day"
      [] OTHER -> "/evening"

\* The vocabularies a run's users draw their answers from.  Each holds one
\* accepted literal per scale question, so that a session is determined by
\* its kind and cursor, and texts that are rejected.
VocabCalm == {"0", "NET", "6"}
VocabTense == {" 4 ", "da", "Navyazchivye", "mimolyotnye"}
VocabMid == {"3", "Da", "Mimolyotnye", ""}
Vocabularies == {VocabCalm, VocabTense, VocabMid}

----------------------------------------------------------------------------
(* Survey definition *)

Q(key, label, type) == [key |-> key, label |-> label, type |-> type]

MORNING_QUESTIONS == <<
    Q("mood", "Nastroenie (0-5)", "scale"),
    Q("energy", "Energiya (0-5)", "scale"),
    Q("sleep_quality", "Son (kachestvo 0-5)", "scale"),
    Q("body_heaviness", "Vatnost tela (0-5)", "scale"),
    Q("leg_weakness", "Slabost v nogah (0-5)", "scale"),
    Q("libido", "Libido (0-5)", "scale"),
    Q("appetite", "Appetit (0-5)", "scale"),
    Q("anxiety", "Trevozhnost (0-5)", "scale"),
    Q("impulsivity", "Impulsivnost (0-5)", "scale"),
    Q("meds", "Prinimal(a) lekarstva? (Da/Net)", "yesno") >>

DAY_QUESTIONS == <<
    Q("mood", "Nastroenie (0-5)", "scale"),
    Q("energy", "Energiya (0-5)", "scale"),
    Q("productivity", "Produktivnost (0-5)", "scale"),
    Q("focus", "Koncentraciya (0-5)", "scale"),
    Q("social", "Socializaciya (0-5)", "scale"),
    Q("anxiety", "Trevozhnost (0-5)", "scale"),
    Q("irritability", "Razdrazhitelnost (0-5)", "scale"),
    Q("impulsivity", "Impulsivnost (0-5)", "scale"),
    Q("hyperactivity", "Giperaktivnost (0-5)", "scale"),
    Q("suicidal", "Mysli o smerti (net/mimolyotnye/navyazchivye)", "suicide") >>

EVENING_QUESTIONS == <<
    Q("mood", "Nastroenie (0-5)", "scale"),
    Q("energy", "Energiya (0-5)", "scale"),
    Q("productivity", "Produktivnost (0-5)", "scale"),
    Q("focus", "Koncentraciya (0-5)", "scale"),
    Q("social", "Socializaciya (0-5)", "scale"),
    Q("anxiety", "Trevozhnost (0-5)", "scale"),
    Q("irritability", "Razdrazhitelnost (0-5)", "scale"),
    Q("tearfulness", "Plaksivost (0-5)", "scale"),
    Q("hyperactivity", "Giperaktivnost (0-5)", "scale"),
    Q("suicidal", "Mysli o smerti (net/mimolyotnye/navyazchivye)", "suicide") >>

options_for(type) ==
    CASE type = "scale" -> <<"0", "1", "2", "3", "4", "5">>
      [] type = "yesno" -> <<"Da", "Net">>
      [] type = "suicide" -> <<"net", "mimolyotnye", "navyazchivye">>
      [] OTHER -> <<>>

\* The buttons of the reply keyboard: the options, then the cancel button.
survey_keyboard_for(type) == options_for(type) \o <<CancelText>>

get_questions(kind) ==
    IF kind = "morning" THEN MORNING_QUESTIONS
    ELSE IF kind = "day" THEN DAY_QUESTIONS
    ELSE EVENING_QUESTIONS

----------------------------------------------------------------------------
(* Python dicts keep insertion order: a sequence of <<key, value>> pairs. *)

Range(s) == {s[i] : i \in 1..Len(s)}

DictKeys(d) == [i \in 1..Len(d) |-> d[i][1]]

DictHas(d, k) == \E i \in 1..Len(d) : d[i][1] = k

DictGet(d, k) == d[CHOOSE i \in 1..Len(d) : d[i][1] = k][2]

\* d[k] = v: an existing key keeps its place.
DictSet(d, k, v) ==
    IF DictHas(d, k)
    THEN [i \in 1..Len(d) |-> IF d[i][1] = k THEN <<k, v>> ELSE d[i]]
    ELSE Append(d, <<k, v>>)

----------------------------------------------------------------------------
(* Storage records *)

\* state.clear(): no FSM state, empty data.
Idle == [state |-> "none", kind |-> "none", index |-> 0, answers |-> <<>>]

\* set_state(Survey.answering) with data {kind, index, answers}.
Session(kind, index, answers) ==
    [state |-> "answering", kind |-> kind, index |-> index, answers |-> answers]

\* A row of the table entries (created_at and id left out).
Entry(chat, kind, answers) == [chat |-> chat, kind |-> kind, answers |-> answers]

\* A worksheet row: chat_id, period, then str() of each value in dict order.
Row(chat, kind, answers) ==
    [chat |-> chat, kind |-> kind, values |-> [i \in 1..Len(answers) |-> answers[i][2]]]

----------------------------------------------------------------------------
(* Outbound messages: a tag naming the call site, the text, the keyboard. *)

Msg(tag, text, kb) == [tag |-> tag, text |-> text, kb |-> kb]

NoMsg == Msg("none", "", <<>>)

PromptMsg(q) == Msg("prompt", q.label, survey_keyboard_for(q.type))

SavedMsg == Msg("saved", "Spasibo! Otvety sohraneny", <<>>)

RiskMsg == Msg("risk", "Zamechayu otvet pro mysli o smerti", <<>>)

TensionMsg == Msg("tension", "Pohozhe, vysokiy uroven napryazheniya", <<>>)

CancelledMsg == Msg("cancelled", "Opros prervan.", <<>>)

OverMsg == Msg("over", "Kazhetsya, opros uzhe zavershyon", <<>>)

RejectMsg == Msg("rejected", "Pozhaluysta, vyberi odin iz variantov na klaviature.", <<>>)

HelloMsg == Msg("hello", "Privet!", <<"/morning", "/day", "/evening">>)

InviteMsg(kind) ==
    Msg("invite",
        CASE kind = "morning" -> "Utrenniy opros. Nazhmi /morning, chtoby otvetit."
          [] kind = "day" -> "Dnevnoy opros. Nazhmi /day, chtoby otvetit."
          [] OTHER -> "Vecherniy opros. Nazhmi /evening, chtoby otvetit.",
        <<CommandOf(kind)>>)

----------------------------------------------------------------------------
(* Handler coroutines *)

\* pc of a suspended coroutine names the await it is suspended in.
Suspended == {"over", "saved", "risk", "tension"}

\* sent: the sends of the coroutine that have ended, with their outcome.
FreeSlot ==
    [pc |-> "free", chat |-> 0, kind |-> "none", answers |-> <<>>,
     kpos |-> 0, sent |-> <<>>]

Available(h) == slots[h].pc = "free"

\* The slot a new coroutine takes.
NewSlot == CHOOSE h \in Slots : Available(h) /\ \A g \in Slots : Available(g) => h <= g

InFlight(c) == \E h \in Slots : slots[h].chat = c /\ slots[h].pc \in Suspended

\* The outcome of the send the coroutine is suspended in.
Logged(s, ok) == Append(s.sent, [tag |-> s.pc, ok |-> ok])

\* The latest update: who sent what, the FSM record of the chat when the
\* update arrived, the handler the dispatcher chose and the message that
\* handler handed to the transport first (NoMsg when it raised before any
\* send, or when no handler matched).
Update(chat, text, handler, msg) ==
    [chat |-> chat, text |-> text, before |-> fsm[chat],
     handler |-> handler, msg |-> msg]

NoUpdate ==
    [chat |-> 0, text |-> "", before |-> Idle, handler |-> "none", msg |-> NoMsg]

----------------------------------------------------------------------------
(* handle_answer: the validation block *)

\* Mutant: the scale check written with range(7).
ValidateScaleSeven(type, raw) ==
    LET text == Strip(raw) IN
    CASE type = "scale" ->
            [valid |-> text \in Range(<<"0", "1", "2", "3", "4", "5", "6">>), text |-> text]
      [] type = "yesno" ->
            [valid |-> Lower(text) \in {"da", "net"},
             text |-> IF Lower(text) = "da" THEN "Da" ELSE "Net"]
      [] type = "suicide" ->
            [valid |-> Lower(text) \in {"net", "mimolyotnye", "navyazchivye"},
             text |-> Lower(text)]
      [] OTHER -> [valid |-> TRUE, text |-> text]

\* Mutant: the yes/no branch normalises but never rejects.
ValidateYesNoAny(type, raw) ==
    LET text == Strip(raw) IN
    CASE type = "scale" ->
            [valid |-> text \in Range(<<"0", "1", "2", "3", "4", "5">>), text |-> text]
      [] type = "yesno" ->
            [valid |-> TRUE, text |-> IF Lower(text) = "da" THEN "Da" ELSE "Net"]
      [] type = "suicide" ->
            [valid |-> Lower(text) \in {"net", "mimolyotnye", "navyazchivye"},
             text |-> Lower(text)]
      [] OTHER -> [valid |-> TRUE, text |-> text]

\* Mutant: the branches check the text but store it as typed.
ValidateKeepsRaw(type, raw) ==
    LET text == Strip(raw) IN
    CASE type = "scale" ->
            [valid |-> text \in Range(<<"0", "1", "2", "3", "4", "5">>), text |-> text]
      [] type = "yesno" ->
            [valid |-> Lower(text) \in {"da", "net"}, text |-> text]
      [] type = "suicide" ->
            [valid |-> Lower(text) \in {"net", "mimolyotnye", "navyazchivye"},
             text |-> text]
      [] OTHER -> [valid |-> TRUE, text |-> text]

Validate(type, raw) ==
    LET text == Strip(raw) IN
    CASE type = "scale" ->
            [valid |-> text \in Range(<<"0", "1", "2", "3", "4", "5">>), text |-> text]
      [] type = "yesno" ->
            [valid |-> Lower(text) \in {"da", "net"},
             text |-> IF Lower(text) = "da" THEN "Da" ELSE "Net"]
      [] type = "suicide" ->
            [valid |-> Lower(text) \in {"net", "mimolyotnye", "navyazchivye"},
             text |-> Lower(text)]
      [] OTHER -> [valid |-> TRUE, text |-> text]

----------------------------------------------------------------------------
(* maybe_trigger_alerts *)

RiskCondition(answers) ==
    DictHas(answers, "suicidal") /\ DictGet(answers, "suicidal") # "net"

TENSION_KEYS == <<"anxiety", "irritability", "impulsivity">>

TensionCondition(answers, k) ==
    DictHas(answers, k) /\ ParseInt(DictGet(answers, k)) >= 4

\* The first position of the for loop, from `from` on, that sends the alert;
\* 0 when the loop ends without sending.
NextTension(answers, from) ==
    LET hits == {i \in from..Len(TENSION_KEYS) : TensionCondition(answers, TENSION_KEYS[i])}
    IN IF hits = {} THEN 0 ELSE CHOOSE i \in hits : \A j \in hits : i <= j

----------------------------------------------------------------------------
(* Initial state: the process has started, the tables are empty. *)

\* The latest /trigger request: its path and query parameters, the status of
\* the HTTPException its guards raised (0: none), and the send_bulk_prompt
\* loop (pc "idle": never entered).
NoFire ==
    [pc |-> "idle", kind |-> "none", key |-> "", status |-> 0,
     snapshot |-> <<>>, todo |-> <<>>, attempts |-> <<>>]

Init ==
    /\ fsm = [c \in Chats |-> Idle]
    /\ users = [c \in Chats |-> "absent"]
    /\ entries = <<>>
    /\ sheet = <<>>
    /\ slots = [h \in Slots |-> FreeSlot]
    /\ last = NoUpdate
    /\ fire = NoFire
    /\ vocab \in Vocabularies
    /\ accepted = [c \in Chats |-> <<>>]
    /\ scenario = [c \in Chats |-> -1]
    /\ budget = MaxUpdates
    /\ SECRET_KEY = ""
    /\ persisted = [c \in Chats |-> 0]

\* One more request can be served.
CanServe == budget > 0

\* The scenario "start morning, then only the text 0" goes on with `text`.
ScenarioAfter(c, text) ==
    IF scenario[c] >= 0 /\ scenario[c] < 10 /\ text = "0"
    THEN [scenario EXCEPT ![c] = @ + 1]
    ELSE [scenario EXCEPT ![c] = -1]

----------------------------------------------------------------------------
(* ask_next_question, called by `handler` for the update `text` of chat c  *)
(* with the data it has just stored.  dbOk: the INSERT of save_entry_local *)
(* commits (else it raises); mirrorOk: append_row appends the row (else it *)
(* returns early or raises, which is caught).                              *)

\* Mutant: append_row called without try/except: its exception leaves
\* ask_next_question after the INSERT, before the confirmation.
ask_next_question_mirror_raises(c, text, handler, data, dbOk, mirrorOk) ==
    LET questions == get_questions(data.kind) IN
    IF data.index >= Len(questions)
    THEN IF dbOk /\ mirrorOk
         THEN /\ \E h \in Slots : Available(h)
              /\ entries' = Append(entries, Entry(c, data.kind, data.answers))
              /\ sheet' = Append(sheet, Row(c, data.kind, data.answers))
              /\ slots' = [slots EXCEPT ![NewSlot] =
                    [FreeSlot EXCEPT !.pc = "saved", !.chat = c,
                                     !.kind = data.kind, !.answers = data.answers]]
              /\ last' = Update(c, text, handler, SavedMsg)
         ELSE /\ entries' = IF dbOk
                            THEN Append(entries, Entry(c, data.kind, data.answers))
                            ELSE entries
              /\ last' = Update(c, text, handler, NoMsg)
              /\ UNCHANGED <<sheet, slots>>
    ELSE /\ last' = Update(c, text, handler, PromptMsg(questions[data.index + 1]))
         /\ UNCHANGED <<entries, sheet, slots>>

\* Mutant: append_row called before save_entry_local.
ask_next_question_mirror_first(c, text, handler, data, dbOk, mirrorOk) ==
    LET questions == get_questions(data.kind) IN
    IF data.index >= Len(questions)
    THEN /\ sheet' = IF mirrorOk
                     THEN Append(sheet, Row(c, data.kind, data.answers))
                     ELSE sheet
         /\ IF dbOk
            THEN /\ \E h \in Slots : Available(h)
                 /\ entries' = Append(entries, Entry(c, data.kind, data.answers))
                 /\ slots' = [slots EXCEPT ![NewSlot] =
                       [FreeSlot EXCEPT !.pc = "saved", !.chat = c,
                                        !.kind = data.kind, !.answers = data.answers]]
                 /\ last' = Update(c, text, handler, SavedMsg)
            ELSE /\ last' = Update(c, text, handler, NoMsg)
                 /\ UNCHANGED <<entries, slots>>
    ELSE /\ last' = Update(c, text, handler, PromptMsg(questions[data.index + 1]))
         /\ UNCHANGED <<entries, sheet, slots>>

ask_next_question(c, text, handler, data, dbOk, mirrorOk) ==
    LET questions == get_questions(data.kind) IN
    IF data.index >= Len(questions)
    THEN IF dbOk
         THEN /\ \E h \in Slots : Available(h)
              /\ entries' = Append(entries, Entry(c, data.kind, data.answers))
              /\ sheet' = IF mirrorOk
                          THEN Append(sheet, Row(c, data.kind, data.answers))
                          ELSE sheet
              /\ slots' = [slots EXCEPT ![NewSlot] =
                    [FreeSlot EXCEPT !.pc = "saved", !.chat = c,
                                     !.kind = data.kind, !.answers = data.answers]]
              /\ last' = Update(c, text, handler, SavedMsg)
         ELSE /\ last' = Update(c, text, handler, NoMsg)
              /\ UNCHANGED <<entries, sheet, slots>>
    ELSE /\ last' = Update(c, text, handler, PromptMsg(questions[data.index + 1]))
         /\ UNCHANGED <<entries, sheet, slots>>

----------------------------------------------------------------------------
(* Handlers, each up to its first await of a send *)

\* cmd_start: /start
CmdStart(c) ==
    /\ CanServe
    /\ users' = [users EXCEPT ![c] = IF @ = "absent" THEN "active" ELSE @]
    /\ last' = Update(c, "/start", "cmd_start", HelloMsg)
    /\ scenario' = [scenario EXCEPT ![c] = -1]
    /\ budget' = budget - 1
    /\ UNCHANGED <<fsm, entries, sheet, slots, fire, vocab, SECRET_KEY, persisted, accepted>>

\* Mutant: update_data(kind, index=0) without answers={}.
start_data_keep(c, kind) == Session(kind, 0, fsm[c].answers)

\* start_survey: set_state(Survey.answering), update_data(kind, index=0, answers={})
start_data(c, kind) == Session(kind, 0, <<>>)

\* cmd_morning, cmd_day, cmd_evening: start_survey(kind)
StartSurvey(c, kind) ==
    /\ CanServe
    /\ LET data == start_data(c, kind) IN
        /\ fsm' = [fsm EXCEPT ![c] = data]
        /\ ask_next_question(c, CommandOf(kind), "start_survey", data, TRUE, TRUE)
    /\ accepted' = [accepted EXCEPT ![c] = <<>>]
    /\ scenario' = [scenario EXCEPT ![c] =
                        IF kind = "morning" /\ ~InFlight(c) THEN 0 ELSE -1]
    /\ persisted' = [persisted EXCEPT ![c] = 0]
    /\ budget' = budget - 1
    /\ UNCHANGED <<users, fire, vocab, SECRET_KEY>>

\* Mutant: cancel replies without state.clear().
CancelKeepsSession(c) ==
    /\ CanServe
    /\ last' = Update(c, CancelText, "cancel", CancelledMsg)
    /\ scenario' = [scenario EXCEPT ![c] = -1]
    /\ budget' = budget - 1
    /\ UNCHANGED <<fsm, accepted, users, entries, sheet, slots, fire, vocab, SECRET_KEY, persisted>>

\* cancel: the text of the cancel button, in any FSM state
Cancel(c) ==
    /\ CanServe
    /\ fsm' = [fsm EXCEPT ![c] = Idle]
    /\ last' = Update(c, CancelText, "cancel", CancelledMsg)
    /\ accepted' = [accepted EXCEPT ![c] = <<>>]
    /\ scenario' = [scenario EXCEPT ![c] = -1]
    /\ budget' = budget - 1
    /\ UNCHANGED <<users, entries, sheet, slots, fire, vocab, SECRET_KEY, persisted>>

\* Mutant: handle_answer without the check of the cursor against the number
\* of questions: it goes on to ask_next_question.
HandleAnswerNoEndCheck(c, text) ==
    /\ CanServe
    /\ fsm[c].state = "answering"
    /\ LET data == fsm[c]
           questions == get_questions(data.kind)
       IN IF data.index >= Len(questions)
          THEN /\ \E dbOk \in BOOLEAN, mirrorOk \in BOOLEAN :
                     ask_next_question(c, text, "handle_answer", data, dbOk, mirrorOk)
               /\ UNCHANGED <<fsm, accepted>>
          ELSE LET q == questions[data.index + 1]
                   v == Validate(q.type, text)
               IN IF ~v.valid
                  THEN /\ last' = Update(c, text, "handle_answer", RejectMsg)
                       /\ UNCHANGED <<fsm, entries, sheet, slots, accepted>>
                  ELSE LET next == Session(data.kind, data.index + 1,
                                           DictSet(data.answers, q.key, v.text))
                       IN /\ fsm' = [fsm EXCEPT ![c] = next]
                          /\ accepted' = [accepted EXCEPT ![c] = Append(@, text)]
                          /\ \E dbOk \in BOOLEAN, mirrorOk \in BOOLEAN :
                                ask_next_question(c, text, "handle_answer",
                                                  next, dbOk, mirrorOk)
    /\ scenario' = ScenarioAfter(c, text)
    /\ persisted' = [persisted EXCEPT ![c] = @ + Len(entries') - Len(entries)]
    /\ budget' = budget - 1
    /\ UNCHANGED <<users, fire, vocab, SECRET_KEY>>

\* handle_answer: any other message while the FSM state is Survey.answering
HandleAnswer(c, text) ==
    /\ CanServe
    /\ fsm[c].state = "answering"
    /\ LET data == fsm[c]
           questions == get_questions(data.kind)
       IN IF data.index >= Len(questions)
          THEN /\ \E h \in Slots : Available(h)
               /\ slots' = [slots EXCEPT ![NewSlot] =
                     [FreeSlot EXCEPT !.pc = "over", !.chat = c]]
               /\ last' = Update(c, text, "handle_answer", OverMsg)
               /\ UNCHANGED <<fsm, entries, sheet, accepted>>
          ELSE LET q == questions[data.index + 1]
                   v == Validate(q.type, text)
               IN IF ~v.valid
                  THEN /\ last' = Update(c, text, "handle_answer", RejectMsg)
                       /\ UNCHANGED <<fsm, entries, sheet, slots, accepted>>
                  ELSE LET next == Session(data.kind, data.index + 1,
                                           DictSet(data.answers, q.key, v.text))
                       IN /\ fsm' = [fsm EXCEPT ![c] = next]
                          /\ accepted' = [accepted EXCEPT ![c] = Append(@, text)]
                          /\ \E dbOk \in BOOLEAN, mirrorOk \in BOOLEAN :
                                ask_next_question(c, text, "handle_answer",
                                                  next, dbOk, mirrorOk)
    /\ scenario' = ScenarioAfter(c, text)
    /\ persisted' = [persisted EXCEPT ![c] = @ + Len(entries') - Len(entries)]
    /\ budget' = budget - 1
    /\ UNCHANGED <<users, fire, vocab, SECRET_KEY>>

\* Mutant: handle_answer registered without its StateFilter replies to a
\* chat with no survey.
UnhandledReplies(c, text) ==
    /\ CanServe
    /\ fsm[c].state # "answering"
    /\ last' = Update(c, text, "handle_answer", OverMsg)
    /\ scenario' = ScenarioAfter(c, text)
    /\ budget' = budget - 1
    /\ UNCHANGED <<fsm, users, entries, sheet, slots, fire, vocab, SECRET_KEY, persisted, accepted>>

\* A message no handler matches: the dispatcher drops the update.
Unhandled(c, text) ==
    /\ CanServe
    /\ fsm[c].state # "answering"
    /\ last' = Update(c, text, "none", NoMsg)
    /\ scenario' = ScenarioAfter(c, text)
    /\ budget' = budget - 1
    /\ UNCHANGED <<fsm, users, entries, sheet, slots, fire, vocab, SECRET_KEY, persisted, accepted>>

----------------------------------------------------------------------------
(* The awaited send of a suspended coroutine ends. *)

\* state.clear() and return
Finish(h, s) ==
    /\ fsm' = [fsm EXCEPT ![s.chat] = Idle]
    /\ accepted' = [accepted EXCEPT ![s.chat] = <<>>]
    /\ slots' = [slots EXCEPT ![h] = FreeSlot]

\* maybe_trigger_alerts goes on with the for loop at position `from`.
TensionLoop(h, s, from) ==
    LET i == NextTension(s.answers, from) IN
    IF i = 0
    THEN Finish(h, s)
    ELSE /\ slots' = [slots EXCEPT ![h] = [s EXCEPT !.pc = "tension", !.kpos = i]]
         /\ UNCHANGED <<fsm, accepted>>

\* The send returns.
SendReturns(h) ==
    /\ slots[h].pc \in Suspended
    /\ LET s == [slots[h] EXCEPT !.sent = Logged(slots[h], TRUE)] IN
        CASE s.pc = "over" -> Finish(h, s)
          [] s.pc = "saved" ->
                IF RiskCondition(s.answers)
                THEN /\ slots' = [slots EXCEPT ![h] = [s EXCEPT !.pc = "risk"]]
                     /\ UNCHANGED <<fsm, accepted>>
                ELSE TensionLoop(h, s, 1)
          [] s.pc = "risk" -> TensionLoop(h, s, 1)
          [] s.pc = "tension" -> Finish(h, s)
    /\ UNCHANGED <<users, entries, sheet, last, fire, vocab, SECRET_KEY, persisted, scenario, budget>>

\* The send raises.
SendRaises(h) ==
    /\ slots[h].pc \in Suspended
    /\ LET s == [slots[h] EXCEPT !.sent = Logged(slots[h], FALSE)] IN
        CASE s.pc \in {"over", "saved"} ->
                /\ slots' = [slots EXCEPT ![h] = FreeSlot]
                /\ UNCHANGED <<fsm, accepted>>
          [] s.pc = "risk" -> Finish(h, s)
          [] s.pc = "tension" -> TensionLoop(h, s, s.kpos + 1)
    /\ UNCHANGED <<users, entries, sheet, last, fire, vocab, SECRET_KEY, persisted, scenario, budget>>

----------------------------------------------------------------------------
(* trigger and send_bulk_prompt *)

\* The orders in which the SELECT of get_active_users can list the rows.
Snapshots ==
    LET active == {c \in Chats : users[c] = "active"} IN
    {s \in [1..Cardinality(active) -> active] :
        \A i, j \in 1..Len(s) : i # j => s[i] # s[j]}

\* The {kind} of the request path: the three kinds and an unknown one.
TriggerKinds == Kinds \cup {"night"}

\* The query parameter key: absent (""), the secret, the secret in another
\* letter case.
Keys == {"", "s3cret", "S3cret"}

\* raise HTTPException(status_code=status): send_bulk_prompt is not called.
Rejected(kind, key, status) ==
    [pc |-> "idle", kind |-> kind, key |-> key, status |-> status,
     snapshot |-> <<>>, todo |-> <<>>, attempts |-> <<>>]

\* send_bulk_prompt(kind) has read the roster: up to the first await of
\* send_prompt.
Accepted(kind, key, snap) ==
    [pc |-> IF snap = <<>> THEN "returned" ELSE "sending",
     kind |-> kind, key |-> key, status |-> 0,
     snapshot |-> snap, todo |-> snap, attempts |-> <<>>]

\* Mutant: trigger without the comparison of the key.
TriggerIgnoresKey(kind, key) ==
    /\ CanServe
    /\ fire.pc # "sending"
    /\ IF kind \notin Kinds
       THEN fire' = Rejected(kind, key, 404)
       ELSE \E snap \in Snapshots : fire' = Accepted(kind, key, snap)
    /\ last' = NoUpdate
    /\ budget' = budget - 1
    /\ UNCHANGED <<fsm, users, entries, sheet, slots, vocab, SECRET_KEY, persisted,
                   accepted, scenario>>

\* POST /trigger/{kind}?key=...
Trigger(kind, key) ==
    /\ CanServe
    /\ fire.pc # "sending"
    /\ IF kind \notin Kinds
       THEN fire' = Rejected(kind, key, 404)
       ELSE IF SECRET_KEY # "" /\ key # SECRET_KEY
       THEN fire' = Rejected(kind, key, 403)
       ELSE \E snap \in Snapshots : fire' = Accepted(kind, key, snap)
    /\ last' = NoUpdate
    /\ budget' = budget - 1
    /\ UNCHANGED <<fsm, users, entries, sheet, slots, vocab, SECRET_KEY, persisted,
                   accepted, scenario>>

\* Mutant: send_bulk_prompt without try/except: a raise ends the loop.
FireSendAborts(ok) ==
    /\ fire.pc = "sending"
    /\ LET rest == Tail(fire.todo) IN
        fire' = [fire EXCEPT
                    !.attempts = Append(@, [chat |-> Head(fire.todo),
                                             msg |-> InviteMsg(fire.kind), ok |-> ok]),
                    !.todo = rest,
                    !.pc = IF ~ok THEN "raised"
                           ELSE IF rest = <<>> THEN "returned" ELSE "sending"]
    /\ UNCHANGED <<fsm, users, entries, sheet, slots, last, vocab, SECRET_KEY, persisted, accepted, scenario, budget>>

\* Mutant: send_prompt starts the survey of the chat it writes to.
FireSendStarts(ok) ==
    /\ fire.pc = "sending"
    /\ LET rest == Tail(fire.todo) IN
        fire' = [fire EXCEPT
                    !.attempts = Append(@, [chat |-> Head(fire.todo),
                                             msg |-> InviteMsg(fire.kind), ok |-> ok]),
                    !.todo = rest,
                    !.pc = IF rest = <<>> THEN "returned" ELSE "sending"]
    /\ fsm' = [fsm EXCEPT ![Head(fire.todo)] = Session(fire.kind, 0, <<>>)]
    /\ UNCHANGED <<users, entries, sheet, slots, last, vocab, SECRET_KEY, persisted, accepted, scenario, budget>>

\* bot.send_message of send_prompt ends: returns (ok) or raises, which the
\* loop catches; the loop goes on with the next chat.
FireSend(ok) ==
    /\ fire.pc = "sending"
    /\ LET rest == Tail(fire.todo) IN
        fire' = [fire EXCEPT
                    !.attempts = Append(@, [chat |-> Head(fire.todo),
                                             msg |-> InviteMsg(fire.kind), ok |-> ok]),
                    !.todo = rest,
                    !.pc = IF rest = <<>> THEN "returned" ELSE "sending"]
    /\ UNCHANGED <<fsm, users, entries, sheet, slots, last, vocab, SECRET_KEY, persisted, accepted, scenario, budget>>

----------------------------------------------------------------------------

\* The conversation: the survey handlers and their sends.
Next ==
    \/ \E c \in Chats, kind \in Kinds : StartSurvey(c, kind)
    \/ \E c \in Chats : Cancel(c)
    \/ \E c \in Chats, text \in vocab : HandleAnswer(c, text)
    \/ \E c \in Chats, text \in vocab : Unhandled(c, text)
    \/ \E h \in Slots : SendReturns(h)
    \/ \E h \in Slots : SendRaises(h)

Spec == Init /\ [][Next]_vars

\* The broadcast: every chat talks to the bot, and /trigger is called.  What
\* the users answer does not reach the broadcast: one vocabulary.
InitFire ==
    /\ fsm = [c \in Chats |-> Idle]
    /\ users = [c \in Chats |-> "absent"]
    /\ entries = <<>>
    /\ sheet = <<>>
    /\ slots = [h \in Slots |-> FreeSlot]
    /\ last = NoUpdate
    /\ fire = NoFire
    /\ vocab = VocabCalm
    /\ accepted = [c \in Chats |-> <<>>]
    /\ scenario = [c \in Chats |-> -1]
    /\ budget = MaxFireUpdates
    /\ SECRET_KEY \in Secrets
    /\ persisted = [c \in Chats |-> 0]

NextFire ==
    \/ \E c \in Chats : CmdStart(c)
    \/ \E c \in Chats, kind \in Kinds : StartSurvey(c, kind)
    \/ \E c \in Chats : Cancel(c)
    \/ \E c \in Chats, text \in vocab \cup {OptoutText} : HandleAnswer(c, text)
    \/ \E c \in Chats, text \in vocab \cup {OptoutText} : Unhandled(c, text)
    \/ \E kind \in TriggerKinds, key \in Keys : Trigger(kind, key)
    \/ \E ok \in BOOLEAN : FireSend(ok)

SpecFire == InitFire /\ [][NextFire]_vars

----------------------------------------------------------------------------
(* Vocabulary of the properties *)

\* This step serves a webhook update of chat c; last' describes it.
WebhookStep(c) == budget' = budget - 1 /\ fire' = fire /\ last'.chat = c

\* The question a chat with a session is asked next (its cursor is not at
\* the end).
Pending(c) == get_questions(fsm[c].kind)[fsm[c].index + 1]

Asked(c) ==
    fsm[c].state = "answering" /\ fsm[c].index < Len(get_questions(fsm[c].kind))

\* The valid values of an answer type, matched after trimming and case
\* folding; the canonical value of a raw text is the option it matches.
Matches(type, raw) == {v \in Range(options_for(type)) : Lower(v) = Lower(Strip(raw))}

Canonical(type, raw) == CHOOSE v \in Matches(type, raw) : TRUE

\* The answers of a complete survey of `kind` answered with `raws`.
CanonicalAnswers(kind, raws) ==
    LET qs == get_questions(kind) IN
    [i \in 1..Len(qs) |-> <<qs[i].key, Canonical(qs[i].type, raws[i])>>]

\* The coroutine of slot h, which finalizes a survey, ends in this step.
CompletionEnds(h) == slots[h].pc \in {"saved", "risk", "tension"} /\ slots'[h].pc = "free"

\* The sends of kind `tag` a coroutine has attempted so far.
Attempts(s, tag) ==
    Cardinality({i \in 1..Len(s.sent) : s.sent[i].tag = tag})
        + (IF s.pc = tag THEN 1 ELSE 0)

EntriesOf(c) == {i \in 1..Len(entries) : entries[i].chat = c}

----------------------------------------------------------------------------
(* C1 *)

\* C1: a chat that starts a kind and answers every question validly gets
\* exactly one Entry, whose answers hold one key per catalog question in
\* catalog order with the canonical value of each accepted text, and is Idle
\* once the handling of its last answer has ended.
C1_RoundTrip ==
    [][\A c \in Chats :
        /\ ( /\ WebhookStep(c)
             /\ Asked(c)
             /\ fsm[c].index = Len(get_questions(fsm[c].kind)) - 1
             /\ last'.msg = SavedMsg )
           => /\ Len(accepted'[c]) = Len(get_questions(fsm[c].kind))
              /\ entries' = Append(entries,
                     Entry(c, fsm[c].kind, CanonicalAnswers(fsm[c].kind, accepted'[c])))
        /\ \A h \in Slots :
              (CompletionEnds(h) /\ slots[h].chat = c) => fsm'[c] = Idle
      ]_vars

----------------------------------------------------------------------------
(* C2 *)

\* C2: start(chat, k), whatever the chat's session was, leaves the chat
\* Active with kind k, cursor 0 and no answers, and the handler sends the
\* prompt of the first question of k; nothing is written.
C2_StartOverwrites ==
    [][\A c \in Chats, k \in Kinds :
        (WebhookStep(c) /\ last'.text = CommandOf(k))
        => /\ fsm' = [fsm EXCEPT ![c] = Session(k, 0, <<>>)]
           /\ last'.handler = "start_survey"
           /\ last'.msg = PromptMsg(get_questions(k)[1])
           /\ entries' = entries
           /\ sheet' = sheet
      ]_vars

\* A start has replaced a session of another kind that held answers.
C2_Witness ==
    /\ last.handler = "start_survey"
    /\ last.before.state = "answering"
    /\ Len(last.before.answers) >= 3
    /\ fsm[last.chat].kind # last.before.kind
    /\ fsm[last.chat].index = 0
    /\ fsm[last.chat].answers = <<>>

----------------------------------------------------------------------------
(* C3 *)

\* C3: a text that matches no valid value of the pending question leaves
\* the session, the tables and the coroutines as they were and is answered
\* with the one rejection message, however often it is repeated.
C3_RejectionKeepsState ==
    [][\A c \in Chats :
        ( /\ WebhookStep(c)
          /\ Asked(c)
          /\ last'.text \in vocab
          /\ Matches(Pending(c).type, last'.text) = {} )
        => /\ fsm' = fsm
           /\ accepted' = accepted
           /\ entries' = entries
           /\ sheet' = sheet
           /\ slots' = slots
           /\ last'.handler = "handle_answer"
           /\ last'.msg = RejectMsg
      ]_vars

\* A rejection in the middle of a survey: the session is as it was.
C3_Witness ==
    /\ last.msg = RejectMsg
    /\ last.before.index >= 2
    /\ fsm[last.chat] = last.before

----------------------------------------------------------------------------
(* C4 *)

----------------------------------------------------------------------------
(* C5 *)

\* C5: cancel leaves the chat Idle from any session, writes no Entry and no
\* mirror row, starts no coroutine that would evaluate alerts, and sends the
\* cancellation message; on an Idle chat it changes no stored state.
C5_CancelClears ==
    [][\A c \in Chats :
        (WebhookStep(c) /\ last'.text = CancelText)
        => /\ fsm' = [fsm EXCEPT ![c] = Idle]
           /\ entries' = entries
           /\ sheet' = sheet
           /\ slots' = slots
           /\ users' = users
           /\ last'.handler = "cancel"
           /\ last'.msg = CancelledMsg
      ]_vars

\* A cancel late in a survey: the chat is Idle and nothing was written.
C5_Witness ==
    /\ last.handler = "cancel"
    /\ last.before.state = "answering"
    /\ last.before.index >= 5
    /\ fsm[last.chat] = Idle
    /\ entries = <<>>

----------------------------------------------------------------------------
(* C6 *)

NineZeros == [i \in 1..9 |-> <<MORNING_QUESTIONS[i].key, "0">>]

AllZero(e) == \A i \in 1..Len(e.answers) : e.answers[i][2] = "0"

\* C6, as claimed: after start morning and ten times "0", the chat is Idle
\* and has exactly one Entry, with ten keys all "0"; no alert is under way.
C6_TenZerosComplete ==
    \A c \in Chats :
        scenario[c] = 10
        => /\ fsm[c] = Idle
           /\ Cardinality(EntriesOf(c)) = 1
           /\ \A i \in EntriesOf(c) : Len(entries[i].answers) = 10 /\ AllZero(entries[i])
           /\ ~InFlight(c)

\* C6, amended: after start morning and ten times "0", the chat is still
\* Active at cursor 9 with the nine scale keys set to "0": the tenth
\* question (meds) is yes/no and rejects "0".  No Entry of the chat holds
\* "0" for every key and no coroutine of the chat could send an alert.
C6_TenZerosStopAtMeds ==
    \A c \in Chats :
        scenario[c] = 10
        => /\ fsm[c] = Session("morning", 9, NineZeros)
           /\ Pending(c).key = "meds"
           /\ \A i \in EntriesOf(c) : ~AllZero(entries[i])
           /\ ~InFlight(c)

\* The tenth "0" has been handled.
C6_Witness == scenario[1] = 10 /\ last.text = "0" /\ last.chat = 1

----------------------------------------------------------------------------
(* C7 *)

\* C7: when the handling of a survey's last answer ends, the risk alert has
\* been sent if and only if the answers hold 'suicidal' with a value other
\* than "net".
C7_RiskAlertIff ==
    [][\A h \in Slots :
        CompletionEnds(h)
        => (Attempts(slots[h], "risk") = 1 <=> RiskCondition(slots[h].answers))
      ]_vars

----------------------------------------------------------------------------
(* C8 *)

Qualifies(answers) ==
    \E i \in 1..Len(TENSION_KEYS) : TensionCondition(answers, TENSION_KEYS[i])

\* C8: one evaluation of a completed answer set sends exactly one
\* high-tension alert when one of anxiety, irritability, impulsivity is 4 or
\* more, and none otherwise, whatever became of the risk alert or of an
\* earlier send.  (An evaluation has run when the coroutine ends after the
\* risk or tension send, or clears the session right after the
\* confirmation.)
C8_OneTensionAlert ==
    [][\A h \in Slots :
        ( /\ CompletionEnds(h)
          /\ \/ slots[h].pc \in {"risk", "tension"}
             \/ fsm[slots[h].chat] # Idle /\ fsm'[slots[h].chat] = Idle )
        => Attempts(slots[h], "tension") = (IF Qualifies(slots[h].answers) THEN 1 ELSE 0)
      ]_vars

----------------------------------------------------------------------------
(* C9 *)

AttemptedChats == [i \in 1..Len(fire.attempts) |-> fire.attempts[i].chat]

\* C9: in a fire, the chats written to so far followed by those still to
\* come are the snapshot, whichever sends raised: each chat of the snapshot
\* gets one attempt, a raise never ends the loop, and the fire returns.
C9_EveryChatAttemptedOnce ==
    /\ fire.pc \in {"idle", "sending", "returned"}
    /\ AttemptedChats \o fire.todo = fire.snapshot
    /\ fire.pc = "returned" => fire.todo = <<>>
    /\ \A i, j \in 1..Len(fire.snapshot) : i # j => fire.snapshot[i] # fire.snapshot[j]

\* A fire over two chats has returned although its first send raised.
C9_Witness ==
    /\ fire.pc = "returned"
    /\ Len(fire.attempts) = 2
    /\ ~fire.attempts[1].ok
    /\ fire.attempts[2].ok

----------------------------------------------------------------------------
(* C10 *)

----------------------------------------------------------------------------
(* The step is a /trigger request that is served (accepted or rejected). *)

TriggerStep == budget' = budget - 1 /\ last' = NoUpdate

----------------------------------------------------------------------------
(* C11 *)

\* C11: a chat that has opted out is not in the snapshot of a later fire:
\* when the latest message the bot received is the opt-out of chat c, the
\* fire a trigger request starts does not hold c.
C11_OptedOutNotInFire ==
    [][\A c \in Chats :
        (TriggerStep /\ last.chat = c /\ last.text = OptoutText)
        => c \notin Range(fire'.snapshot)
      ]_vars

----------------------------------------------------------------------------
(* C12 *)

\* C12: a trigger request whose kind is not morning, day or evening, or
\* whose key is not exactly the configured secret when one is configured,
\* is rejected: the roster is not read, no message is sent, no session and
\* no table changes.  Every other request reads the roster and broadcasts.
C12_TriggerRejects ==
    [][TriggerStep =>
        LET bad == \/ fire'.kind \notin {"morning", "day", "evening"}
                   \/ SECRET_KEY # "" /\ fire'.key # SECRET_KEY
        IN /\ bad => /\ fire'.status \in {403, 404}
                      /\ fire'.pc = "idle"
                      /\ fire'.snapshot = <<>> /\ fire'.todo = <<>> /\ fire'.attempts = <<>>
                      /\ UNCHANGED <<fsm, users, entries, sheet, slots>>
           /\ ~bad => /\ fire'.status = 0
                       /\ fire'.pc \in {"sending", "returned"}
                       /\ Range(fire'.snapshot) = {c \in Chats : users[c] = "active"}
      ]_vars

\* A request with the secret in the wrong letter case has been rejected
\* although the roster holds an active chat.
C12_Witness ==
    /\ SECRET_KEY = "s3cret"
    /\ fire.key = "S3cret"
    /\ fire.kind \in Kinds
    /\ fire.status = 403
    /\ \E c \in Chats : users[c] = "active"

----------------------------------------------------------------------------
(* C13 *)

\* C13: when the last answer of a survey is handled, the row is inserted
\* and the mirror appends nothing, the step is the one of a successful
\* mirror in everything but the sheet: the Entry is recorded, the
\* confirmation is handed to the transport, and the coroutine goes on, with
\* the answers, to the alerts and to clearing the session.
C13_MirrorFailureIsolated ==
    [][\A c \in Chats :
        LET kind == fsm[c].kind
            n == Len(get_questions(kind))
        IN ( /\ WebhookStep(c) /\ Asked(c)
             /\ fsm[c].index = n - 1 /\ fsm'[c].index = n
             /\ entries' # entries /\ sheet' = sheet )
           => /\ entries' = Append(entries, Entry(c, kind, fsm'[c].answers))
              /\ last'.msg = SavedMsg
              /\ \E h \in Slots :
                    /\ Available(h)
                    /\ slots' = [slots EXCEPT ![h] =
                          [FreeSlot EXCEPT !.pc = "saved", !.chat = c, !.kind = kind,
                                           !.answers = fsm'[c].answers]]
              /\ users' = users
      ]_vars

\* A survey with a risk answer has been recorded without a mirrored row,
\* and its coroutine has gone on to the risk alert.
C13_Witness ==
    /\ sheet = <<>>
    /\ Len(entries) = 1
    /\ \E h \in Slots :
          /\ slots[h].pc = "risk"
          /\ slots[h].answers = entries[1].answers

----------------------------------------------------------------------------
(* C15 *)

\* Every row of the sheet is the row of an Entry of the table.
Mirrored ==
    \A i \in 1..Len(sheet) :
        \E j \in 1..Len(entries) :
            sheet[i] = Row(entries[j].chat, entries[j].kind, entries[j].answers)

\* C15: a row is appended to the sheet only by the step that has inserted
\* its Entry (a failed insert appends no row), and in every state each row
\* of the sheet is the row of an Entry of the table.
C15_PersistBeforeMirror ==
    [][/\ sheet' # sheet
          => /\ Len(entries') = Len(entries) + 1
             /\ LET e == entries'[Len(entries')] IN
                  /\ entries' = Append(entries, e)
                  /\ sheet' = Append(sheet, Row(e.chat, e.kind, e.answers))
       /\ Mirrored'
      ]_vars

\* The insert of a completed survey failed, and no row was mirrored.
C15_Witness ==
    /\ last.handler = "handle_answer"
    /\ last.msg = NoMsg
    /\ fsm[last.chat].index = Len(get_questions(fsm[last.chat].kind))
    /\ sheet = <<>>
    /\ entries = <<>>

----------------------------------------------------------------------------
(* C14 *)

\* C14: no update of a chat begins to be handled while a handler of an
\* earlier update of that chat is suspended in a send.
C14_NoOverlap ==
    [][\A c \in Chats : WebhookStep(c) => ~InFlight(c)]_vars

----------------------------------------------------------------------------
(* C16 *)

\* C16: when the handling of a survey's last answer hands the confirmation
\* to the transport, the Entry is recorded and the chat is already Idle.
C16_ClearedBeforeSend ==
    [][\A c \in Chats :
        (WebhookStep(c) /\ last'.msg = SavedMsg)
        => /\ Len(entries') = Len(entries) + 1
           /\ fsm'[c] = Idle
      ]_vars

----------------------------------------------------------------------------
(* C17 *)

\* C17: a chat none of whose handlers is suspended has a session only with
\* a question pending: its cursor is below the number of questions.
C17_SessionHasPendingQuestion ==
    \A c \in Chats :
        (~InFlight(c) /\ fsm[c].state = "answering")
        => /\ 0 <= fsm[c].index
           /\ fsm[c].index < Len(get_questions(fsm[c].kind))

----------------------------------------------------------------------------
(* C20 *)

\* C20: a session with a question pending is changed only by the handling
\* of an update of its own chat; the end of a coroutine that finalizes an
\* earlier survey leaves it alone.
C20_OnlyOwnEventsEnd ==
    [][\A c \in Chats : (Asked(c) /\ ~WebhookStep(c)) => fsm'[c] = fsm[c]]_vars

----------------------------------------------------------------------------
(* C18 *)

\* C18: the answers of a session hold exactly the keys of the questions
\* before its cursor, one pair each, and every value is one of the options
\* of its question's type.
C18_AnswersTrackCursor ==
    \A c \in Chats :
        fsm[c].state = "answering"
        => LET qs == get_questions(fsm[c].kind)
               i == fsm[c].index
               a == fsm[c].answers
           IN /\ i \in 0..Len(qs)
              /\ Len(a) = i
              /\ Range(DictKeys(a)) = {qs[j].key : j \in 1..i}
              /\ \A j \in 1..Len(a) :
                    \E p \in 1..i :
                        /\ qs[p].key = a[j][1]
                        /\ a[j][2] \in Range(options_for(qs[p].type))

\* A session holds the yes/no answer a user typed in capitals, normalised.
C18_Witness ==
    \E c \in Chats :
        /\ fsm[c].state = "answering"
        /\ DictHas(fsm[c].answers, "meds")
        /\ DictGet(fsm[c].answers, "meds") = "Net"
        /\ accepted[c][Len(accepted[c])] = "NET"

----------------------------------------------------------------------------
(* C19 *)

\* C19: between two starts of a chat at most one Entry of the chat is
\* recorded, whatever arrives in between (no Entry is recorded before the
\* first start): the Entries of a chat never outnumber its starts and no
\* session is persisted twice.
C19_OneEntryPerStart ==
    \A c \in Chats :
        /\ persisted[c] <= 1
        /\ Cardinality(EntriesOf(c)) >= persisted[c]

\* A further message has arrived for a survey that is recorded and whose
\* confirmation is still being sent.
C19_Witness ==
    /\ last.msg = OverMsg
    /\ persisted[last.chat] = 1
    /\ \E h \in Slots : slots[h].chat = last.chat /\ slots[h].pc = "saved"

====
